---- MODULE Spec2Model ----
(***************************************************************************)
(* Internet radio player: the playback controller of the player            *)
(* components (src/src/components/RadioPlayer.tsx, src/unnamed/part_001,   *)
(* src/unnamed/part_000), the debounced search and pagination controller   *)
(* of src/unnamed/part_001, the filter and pagination controller of        *)
(* RadioPlayer.tsx, the paginated GET handler and the mirror discovery of  *)
(* src/src/app/api/stations/route.ts and toggleFavorite of                 *)
(* src/src/lib/db.ts.                                                      *)
(***************************************************************************)
EXTENDS Integers, Sequences, FiniteSets, Bags, TLC

\* ------------------------------------------------------------------ bounds
\* user calls of playStation / stopPlaying followed in one behaviour
MaxCalls == 3
\* committed query changes followed in one behaviour
MaxCommits == 1
\* pages the user may ask for with loadMore
MaxPage == 3
\* the clock advances in steps of TickMs milliseconds
TickMs == 150
\* the page size the client asks for (24 in the source), scaled down
STATIONS_PER_PAGE == 3

\* filter commits (Enter on a filter field) followed in one behaviour
MaxFilterCommits == 1

\* callers that may be inside getRadioBrowserServers at once
MaxResolvers == 2
\* getRadioBrowserServers calls per behaviour
MaxServerCalls == 4
\* the server clock advances in steps of ClockStepMs milliseconds, MaxClockSteps times
ClockStepMs == 1800000
MaxClockSteps == 3

\* callers that may be inside toggleFavorite at once (processes that opened radio.db)
MaxCallers == 2
\* toggleFavorite calls per behaviour
MaxToggles == 4
\* largest `limit` parameter of a GET /api/stations request
MaxLimit == 3
MaxAdds == 2
MaxReceipts == 6

\* --------------------------------------------------------- program constants
DEBOUNCE_MS == 300
\* the freshness window of the cached host list
ONE_HOUR == 3600000

\* ------------------------------------------------------------- playback state
VARIABLES
  variant,         \* which component is mounted: "tsx" (RadioPlayer.tsx), "p1" (part_001; part_000 has the same playback code) or "p0" (the list of part_000)
  player,          \* useState player: index into sessions of the Howl it holds, 0 for null
  currentStation,  \* useState currentStation: a station id, or NoStation for null
  error,           \* useState error: NoError for null, else the message
  loading,         \* useState loading
  currentPage,     \* useState currentPage
  sessions,        \* every Howl created so far: [station, state]
  clickPending,    \* per station, the playStation calls suspended at `await fetch(...action=click...)`
  calls            \* history: the user's playStation / stopPlaying calls, in order

\* ------------------------------------------- search and pagination (part_001)
VARIABLES
  searchQuery,           \* useState searchQuery: the raw input
  debouncedSearchQuery,  \* useState debouncedSearchQuery: the committed query
  timers,                \* pending setTimeout callbacks of the debounce effect: [value, remaining]
  stations,              \* useState stations: the displayed list
  hasMore,               \* useState hasMore
  loadingMore,           \* useState loadingMore
  inflight,              \* fetchStations calls suspended at their fetch: [page, search, kind, epoch]
  dirLen,                \* upstream directory: how many records the empty query matches
  dirBad,                \* upstream directory: position of a record with a blank name, 0 for none
  epoch,                 \* history: how many times the search effect has run
  latestApplied,         \* history: the page-1 response of the latest search effect run was applied
  idleMs,                \* history: milliseconds since the raw input last changed, up to DEBOUNCE_MS
  burst,                 \* history: raw input changes each less than DEBOUNCE_MS after the one before, counted up to 2
  clean                  \* history: the latest search effect run left no older request in flight

\* ------------------------------------------------- server (db.ts, route.ts)
VARIABLES
  favorites,   \* rows of the favorites table: [id, station_id]
  favSeq,      \* the AUTOINCREMENT sequence of the favorites table
  tf,          \* per caller, the toggleFavorite call it is in: [pc, stationId, exists]
  toggles,     \* history: toggleFavorite calls started
  reqPage,     \* GET /api/stations: the `page` query parameter, <<>> when absent
  reqLimit,    \* GET /api/stations: the `limit` query parameter, <<>> when absent
  upstream,    \* the directory's answer to the handler's search request: [ok, body]
  response,    \* the handler's JSON, NoResponse before it answers
  stationTable,  \* rows of the stations table: [id, name, url, favicon, tags]
  stationSeq,    \* the AUTOINCREMENT sequence of the stations table
  adds           \* history: addStation calls made

\* ------------------------------------------- mirror discovery (route.ts)
VARIABLES
  cachedServers,    \* module variable cachedServers: the cached host list
  lastServerFetch,  \* module variable lastServerFetch: Date.now() of the last successful lookup
  now,              \* Date.now()
  gs,               \* per caller, its getRadioBrowserServers call: [pc, ret, host, failed, lookedUp]
  lastSuccess,      \* history: the latest successful lookup, [at, hosts]
  serverCalls       \* history: getRadioBrowserServers calls started

\* ------------------------------------------ applied filters (RadioPlayer.tsx)
VARIABLES
  selectedTag,      \* useState selectedTag: the applied tag filter
  selectedCountry   \* useState selectedCountry: the applied country filter

\* ----------------------------------- response bodies (fetchStations)
VARIABLES
  received,   \* history: the last response body fetchStations handled: [n, page, body]
  listOk      \* whether the stations state holds an array

shapeVars == <<received, listOk>>

playVars == <<variant, player, currentStation, sessions, clickPending, calls>>
uiVars == <<error, loading, currentPage>>

searchVars == <<searchQuery, debouncedSearchQuery, timers, stations, hasMore, loadingMore,
                inflight, dirLen, dirBad, epoch, latestApplied, idleMs, burst, clean>>

discoveryVars == <<cachedServers, lastServerFetch, now, gs, lastSuccess, serverCalls>>

dbVars == <<stationTable, stationSeq, adds>>

serverVars == <<favorites, favSeq, tf, toggles, reqPage, reqLimit, upstream, response,
                discoveryVars, dbVars>>

filterVars == <<selectedTag, selectedCountry>>

clientVars == <<playVars, uiVars, searchVars, filterVars>>

vars == <<clientVars, serverVars, shapeVars>>

\* ----------------------------------------------------------------- texts
\* a text is a sequence of one-character strings; <<>> is the empty string
Digits == <<"0", "1", "2", "3", "4", "5", "6", "7", "8", "9">>

RECURSIVE toString(_)
\* Number.prototype.toString() of a natural number
toString(n) ==
  IF n < 10 THEN <<Digits[n + 1]>>
  ELSE toString(n \div 10) \o <<Digits[(n % 10) + 1]>>

DigitValue(c) == CHOOSE d \in 0..9 : Digits[d + 1] = c

RECURSIVE ParseDigits(_, _)
ParseDigits(s, acc) ==
  IF s = <<>> \/ Head(s) \notin {Digits[k] : k \in 1..10} THEN acc
  ELSE ParseDigits(Tail(s), 10 * acc + DigitValue(Head(s)))

\* parseInt(s) for a text that starts with a digit
parseInt(s) == ParseDigits(s, 0)

RECURSIVE TrimStart(_)
TrimStart(s) == IF s # <<>> /\ Head(s) = " " THEN TrimStart(Tail(s)) ELSE s

RECURSIVE TrimEnd(_)
TrimEnd(s) == IF s # <<>> /\ s[Len(s)] = " " THEN TrimEnd(SubSeq(s, 1, Len(s) - 1)) ELSE s

\* String.prototype.trim()
Trim(s) == TrimEnd(TrimStart(s))

\* a || b on strings: the empty string is falsy
OrElse(a, b) == IF a # <<>> THEN a ELSE b

Min(a, b) == IF a <= b THEN a ELSE b

\* ------------------------------------------------------- upstream directory
\* the raw inputs the user types, which are also the queries sent upstream
Inputs == {<<>>, <<"a">>, <<"a", "b">>}

\* an upstream record: a name padded with a space, or blank when `blank`
UpstreamRecord(id, blank) ==
  [stationuuid |-> id,
   name |-> IF blank THEN <<" ">> ELSE <<"F", "M", " ">> \o toString(id) \o <<" ">>,
   url |-> <<"u">> \o toString(id),
   url_resolved |-> IF id % 2 = 0 THEN <<"r">> \o toString(id) ELSE <<>>]

\* the directory's ordered answer to a query, before offset and limit, has distinct ids.
\* The empty query matches all len records, with ids 1..len (the one at bad has a blank
\* name); <<"a">> matches the named records from the second on, a page and one record
\* more; any other query matches those from the third on, less than a page
DirectoryLen(q, len) ==
  IF q = <<>> THEN len
  ELSE IF q = <<"a">> THEN STATIONS_PER_PAGE + 1
  ELSE STATIONS_PER_PAGE - 1

\* the id of the k-th named record after the first `skip` records
NamedFrom(skip, k, bad) ==
  IF bad > skip /\ skip + k >= bad THEN skip + k + 1 ELSE skip + k

DirectoryAt(q, k, bad) ==
  IF q = <<>> THEN UpstreamRecord(k, k = bad)
  ELSE IF q = <<"a">> THEN UpstreamRecord(NamedFrom(1, k, bad), FALSE)
  ELSE UpstreamRecord(NamedFrom(2, k, bad), FALSE)

\* GET https://<server>/json/stations/search?offset=..&limit=..&name=..: one page of the list
UpstreamSearch(q, offset, limit, len, bad) ==
  LET n == Min(limit, DirectoryLen(q, len) - offset)
  IN  [k \in 1..n |-> DirectoryAt(q, offset + k, bad)]

\* ------------------------------------------------------ route.ts (paginated)
\* a filter that tests the name without trimming it
Usable_NoTrim(r) == r.url # <<>> /\ r.name # <<>>

\* the filter predicate: station.url && station.name && station.name.trim() !== ''
Usable(r) == r.url # <<>> /\ r.name # <<>> /\ Trim(r.name) # <<>>

MapStation(r) ==
  [id |-> r.stationuuid, name |-> Trim(r.name), url |-> OrElse(r.url_resolved, r.url)]

MapSeq(rs) == [k \in 1..Len(rs) |-> MapStation(rs[k])]

\* fetchRadioBrowserStations: resp is the upstream's answer, [ok, body]; any failure gives []
fetchRadioBrowserStations(resp) ==
  IF resp.ok THEN MapSeq(SelectSeq(resp.body, Usable)) ELSE <<>>

\* GET, listing branch: pageParam and limitParam are the query-string values, resp the
\* upstream's answer to the request made with offset = (page - 1) * limit
GET(pageParam, limitParam, resp) ==
  LET page == parseInt(OrElse(pageParam, <<"1">>))
      limit == parseInt(OrElse(limitParam, <<"1", "0", "0">>))
      result == fetchRadioBrowserStations(resp)
  IN  [stations |-> result, page |-> page, limit |-> limit, hasMore |-> Len(result) = limit]

\* a handler that takes the page number minus one as the offset (pages overlap)
GETOffset_PageOnly(pageParam, limitParam) ==
  parseInt(OrElse(pageParam, <<"1">>)) - 1

\* the offset GET passes to fetchRadioBrowserStations
GETOffset(pageParam, limitParam) ==
  (parseInt(OrElse(pageParam, <<"1">>)) - 1) * parseInt(OrElse(limitParam, <<"1", "0", "0">>))

\* URLSearchParams.get(key) || '': the empty text when the key is absent
ParamOf(params, key) == IF key \in DOMAIN params THEN params[key] ELSE <<>>

\* the search parameters fetchRadioBrowserStations(offset, limit, query) sends to the
\* directory, those that select stations: name and tagList are sent only for a query
UpstreamParams(offset, limit, query) ==
  IF query # <<>>
    THEN [offset |-> toString(offset), limit |-> toString(limit),
          name |-> query, tagList |-> query]
    ELSE [offset |-> toString(offset), limit |-> toString(limit)]

\* GET, listing branch: the upstream query made for a request's query string. The handler
\* reads page, limit and search
GETUpstreamParams(params) ==
  UpstreamParams(GETOffset(ParamOf(params, "page"), ParamOf(params, "limit")),
                 parseInt(OrElse(ParamOf(params, "limit"), <<"1", "0", "0">>)),
                 ParamOf(params, "search"))

\* ------------------------------------------------------------------ db.ts
Callers == 1..MaxCallers

\* rows of the stations table that favorites.station_id may reference
StationRows == {1, 2}

NoCall == [pc |-> "idle", stationId |-> 0, exists |-> FALSE]

NoResponse == [stations |-> <<>>, page |-> 0, limit |-> 0, hasMore |-> FALSE]

\* --------------------------------------------- route.ts (mirror discovery)
Resolvers == 1..MaxResolvers

\* the hosts returned when the lookup fails
Fallback ==
  <<"de1.api.radio-browser.info", "nl1.api.radio-browser.info", "at1.api.radio-browser.info">>

\* the host lists resolveSrv('_api._tcp.radio-browser.info') may resolve to
HostLists == {<<"de2.api.radio-browser.info">>,
              <<"fi1.api.radio-browser.info", "de2.api.radio-browser.info">>}

NoServersCall == [pc |-> "idle", ret |-> <<>>, host |-> "", failed |-> FALSE, lookedUp |-> FALSE]

NoSuccess == [at |-> 0 - 1, hosts |-> <<>>]

\* the module has just been loaded: nothing is cached
DiscoveryIdle ==
  /\ cachedServers = <<>>
  /\ lastServerFetch = 0
  /\ now = ONE_HOUR
  /\ gs = [c \in Resolvers |-> NoServersCall]
  /\ lastSuccess = NoSuccess
  /\ serverCalls = 0

\* a row of the stations table as addStation writes it; created_at is left out
StationRow(id, station) ==
  [id |-> id, name |-> station.name, url |-> station.url, favicon |-> station.favicon,
   tags |-> station.tags]

\* the stations that radio.db holds when the module is loaded: the rows favorites refer to
StoredStation(id) ==
  [name |-> <<"s">> \o toString(id), url |-> <<"u", "s">> \o toString(id),
   favicon |-> <<>>, tags |-> <<>>]

\* the arguments addStation is called with
NewStations ==
  {[name |-> <<"j">>, url |-> <<"u", "j">>, favicon |-> <<>>, tags |-> <<"j">>],
   [name |-> <<"r">>, url |-> <<"u", "r">>, favicon |-> <<"f">>, tags |-> <<"r">>]}

\* radio.db when the module is loaded: the stations table holds the stored rows
StationsStored ==
  /\ stationTable = {StationRow(id, StoredStation(id)) : id \in StationRows}
  /\ stationSeq = Cardinality(StationRows)
  /\ adds = 0

\* no favorites, nobody is inside toggleFavorite and no request is being handled
ServerIdle ==
  /\ DiscoveryIdle
  /\ StationsStored
  /\ favorites = {}
  /\ favSeq = 0
  /\ tf = [c \in Callers |-> NoCall]
  /\ toggles = 0
  /\ reqPage = <<>>
  /\ reqLimit = <<>>
  /\ upstream = [ok |-> FALSE, body |-> <<>>]
  /\ response = NoResponse

\* the request a fetchStations call is suspended on; kind is "mount" (initial-load effect,
\* no abort signal), "search" (search effect, with its AbortController) or "more" (loadMore,
\* no abort signal)
Request(page, search, kind, ep) ==
  [page |-> page, search |-> search, kind |-> kind, epoch |-> ep]

\* ------------------------------------------------------------------ player
\* null for currentStation: no station has id 0
NoStation == [id |-> 0, name |-> <<>>, url |-> <<>>]
NoError == <<>>
FetchError == <<"Failed to load radio stations">>
LoadError(name) == <<"Failed to load station: ">> \o name

\* the stations shown as buttons
Displayed == {stations[k] : k \in DOMAIN stations}

\* trackStationClick(stationId): reportOk is whether the server lookup and the request to
\* the directory both succeeded; the catch logs, nothing is thrown
trackStationClick(reportOk) == [threw |-> FALSE]

\* GET with action=click and a station id: {success: true} once trackStationClick has
\* returned, the {error} body with status 500 from the outer catch had it thrown
GETClick(reportOk) ==
  IF trackStationClick(reportOk).threw
    THEN [status |-> 500, success |-> FALSE]
    ELSE [status |-> 200, success |-> TRUE]

\* no click report was made for the session
NoClick == [settled |-> "none", status |-> 0, success |-> FALSE, reported |-> FALSE]

\* how the fetch of /api/stations?action=click&stationId=.. settles in playStation: it
\* rejects (network failure), or resolves with the handler's response, the directory
\* having got the report or not
ClickOutcomes ==
  {[settled |-> "rejected", status |-> 0, success |-> FALSE, reported |-> FALSE]} \cup
  {[settled |-> "resolved", status |-> GETClick(ok).status, success |-> GETClick(ok).success,
    reported |-> ok] : ok \in BOOLEAN}

\* a playStation without the try/catch around the click fetch: a rejection ends the call
PlayProceeds_Uncaught(outcome) == outcome.settled # "rejected"

\* whether playStation goes on after the click fetch has settled: the catch only logs and
\* the response is not inspected
PlayProceeds(outcome) == TRUE

\* a playStation and stopPlaying that do not unload the held player
Unload_Keep(ss, i) == ss

\* Howl.unload(): the session is destroyed; unloading twice changes nothing more
Unload(ss, i) == IF i = 0 THEN ss ELSE [ss EXCEPT ![i].state = "unloaded"]

\* new Howl({src: [station.url], html5: true, ...}) followed by play(): the stream starts loading
\* click is history: how the click report of the playStation call that made it had settled
NewHowl(ss, s) ==
  Append(ss, [station |-> s, src |-> s.url, state |-> "loading", click |-> NoClick])

Live(i) == sessions[i].state # "unloaded"
LiveSessions == {i \in DOMAIN sessions : Live(i)}

\* part_001 renders the search field, the grid and the buttons only past its two early returns
P1_Rendered == ~(loading /\ currentPage = 1) /\ error = NoError

\* ---------------------------------------------------------- part_001 / part_000
\* stopPlaying as called from playStation's toggle branch and from the Stop button
P1_stopEffect ==
  IF player # 0
    THEN /\ sessions' = Unload(sessions, player)
         /\ currentStation' = NoStation
    ELSE UNCHANGED <<sessions, currentStation>>

\* playStation up to its `await`: toggle-to-stop, or unload the held player and report the click
P1_playStation(s) ==
  /\ variant = "p1"
  /\ P1_Rendered
  /\ Len(calls) < MaxCalls
  /\ calls' = Append(calls, s.id)
  /\ IF currentStation.id = s.id
       THEN /\ P1_stopEffect
            /\ UNCHANGED clickPending
       ELSE /\ sessions' = Unload(sessions, player)
            /\ clickPending' = clickPending (+) SetToBag({s})
            /\ UNCHANGED currentStation
  /\ UNCHANGED <<serverVars, shapeVars, filterVars, variant, player, uiVars, searchVars>>

\* the click fetch settles (resolved or rejected, the catch only logs): the rest of playStation runs
P1_clickSettled(s, outcome) ==
  /\ variant = "p1"
  /\ BagIn(s, clickPending)
  /\ clickPending' = clickPending (-) SetToBag({s})
  /\ IF PlayProceeds(outcome)
       THEN /\ sessions' = [NewHowl(sessions, s) EXCEPT ![Len(sessions) + 1].click = outcome]
            /\ player' = Len(sessions) + 1
       ELSE UNCHANGED <<sessions, player>>
  /\ UNCHANGED <<serverVars, shapeVars, filterVars, variant, currentStation, calls, uiVars, searchVars>>

\* the Stop button, shown while currentStation is set
P1_stopPlaying ==
  /\ variant = "p1"
  /\ P1_Rendered
  /\ currentStation # NoStation
  /\ Len(calls) < MaxCalls
  /\ calls' = Append(calls, 0)
  /\ P1_stopEffect
  /\ UNCHANGED <<serverVars, shapeVars, filterVars, variant, player, clickPending, uiVars, searchVars>>

\* ------------------------------------------------------------- RadioPlayer.tsx
Tsx_playStation(s) ==
  /\ variant = "tsx"
  /\ Len(calls) < MaxCalls
  /\ calls' = Append(calls, s.id)
  /\ sessions' = NewHowl(Unload(sessions, player), s)
  /\ player' = Len(sessions) + 1
  /\ currentStation' = s
  /\ UNCHANGED <<serverVars, shapeVars, filterVars, variant, clickPending, uiVars, searchVars>>

\* the Stop button, shown while currentStation is set
Tsx_stopPlaying ==
  /\ variant = "tsx"
  /\ currentStation # NoStation
  /\ Len(calls) < MaxCalls
  /\ calls' = Append(calls, 0)
  /\ IF player # 0
       THEN /\ sessions' = Unload(sessions, player)
            /\ player' = 0
            /\ currentStation' = NoStation
       ELSE UNCHANGED <<sessions, player, currentStation>>
  /\ UNCHANGED <<serverVars, shapeVars, filterVars, variant, clickPending, uiVars, searchVars>>

\* ------------------------------------------------------------- audio engine
\* the stream of a loading Howl starts: part_001 passes onplay, RadioPlayer.tsx passes no callback
Howl_onplay(i) ==
  /\ sessions[i].state = "loading"
  /\ sessions' = [sessions EXCEPT ![i].state = "playing"]
  /\ currentStation' = IF variant = "p1" THEN sessions[i].station ELSE currentStation
  /\ UNCHANGED <<serverVars, shapeVars, filterVars, variant, player, clickPending, calls, uiVars, searchVars>>

\* the stream of a loading Howl cannot be opened: part_001 passes onloaderror, RadioPlayer.tsx none
Howl_onloaderror(i) ==
  /\ sessions[i].state = "loading"
  /\ sessions' = [sessions EXCEPT ![i].state = "failed"]
  /\ IF variant = "p1"
       THEN /\ error' = LoadError(sessions[i].station.name)
            /\ currentStation' = NoStation
       ELSE UNCHANGED <<error, currentStation>>
  /\ UNCHANGED <<serverVars, shapeVars, filterVars, variant, player, clickPending, calls, loading, currentPage, searchVars>>

\* no tag or country filter is applied
FiltersIdle == selectedTag = <<>> /\ selectedCountry = <<>>

NoBody == [n |-> 0, page |-> 0, body |-> [shape |-> "none"]]

\* no response handled yet; useState<RadioStation[]>([]) holds an array
ShapeIdle == received = NoBody /\ listOk = TRUE

\* nothing playing, no call made
PlayIdle ==
  /\ player = 0
  /\ currentStation = NoStation
  /\ sessions = <<>>
  /\ clickPending = EmptyBag
  /\ calls = <<>>

\* the only page of a two-station directory is displayed and no request is in flight
InitPlay ==
  /\ ServerIdle
  /\ variant \in {"tsx", "p1"}
  /\ PlayIdle
  /\ FiltersIdle
  /\ ShapeIdle
  /\ error = NoError
  /\ loading = FALSE
  /\ currentPage = 1
  /\ searchQuery = <<>>
  /\ debouncedSearchQuery = <<>>
  /\ timers = {}
  /\ dirLen = 2
  /\ dirBad = 0
  /\ stations = GET(toString(1), toString(STATIONS_PER_PAGE),
                    [ok |-> TRUE,
                     body |-> UpstreamSearch(<<>>, 0, STATIONS_PER_PAGE, 2, 0)]).stations
  /\ hasMore = FALSE
  /\ loadingMore = FALSE
  /\ inflight = {}
  /\ epoch = 1
  /\ latestApplied = TRUE
  /\ idleMs = 0
  /\ burst = 0
  /\ clean = TRUE

NextPlay ==
  \/ \E s \in Displayed : P1_playStation(s)
  \/ \E s \in Displayed, outcome \in ClickOutcomes : P1_clickSettled(s, outcome)
  \/ P1_stopPlaying
  \/ \E s \in Displayed : Tsx_playStation(s)
  \/ Tsx_stopPlaying
  \/ \E i \in DOMAIN sessions : Howl_onplay(i)
  \/ \E i \in DOMAIN sessions : Howl_onloaderror(i)

SpecPlay == InitPlay /\ [][NextPlay]_vars

\* ------------------------------------------- search and pagination (part_001)
\* what /api/stations answers to fetchStations(page, search): the handler's JSON, computed
\* from the directory's page for the offset the handler derives; upOk is whether the
\* handler's own upstream request succeeded
Answer(page, search, upOk) ==
  LET pageParam == toString(page)
      limitParam == toString(STATIONS_PER_PAGE)
      limit == parseInt(limitParam)
      body == UpstreamSearch(search, GETOffset(pageParam, limitParam), limit, dirLen, dirBad)
  IN  GET(pageParam, limitParam, [ok |-> upOk, body |-> body])

\* an effect that leaves the accumulated list as it is
ResetStations_Keep(list) == list

\* setStations([]) in the effect that runs when a committed filter value has changed
ResetStations(list) == <<>>

\* a debounce effect without cleanup: the previous timer stays armed
ClearTimer_Keep(ts) == ts

\* cleanup of the debounce effect: clearTimeout(timer)
ClearTimer(ts) == {}

\* onChange of the search field and the clear button: setSearchQuery(v); the debounce
\* effect re-runs, clearing its previous timer and starting a new one
P1_setSearchQuery(v) ==
  /\ variant = "p1"
  /\ P1_Rendered
  /\ v # searchQuery
  /\ searchQuery' = v
  /\ timers' = ClearTimer(timers) \cup {[value |-> v, remaining |-> DEBOUNCE_MS]}
  /\ idleMs' = 0
  /\ burst' = IF idleMs < DEBOUNCE_MS THEN Min(burst + 1, 2) ELSE 1
  /\ UNCHANGED <<serverVars, shapeVars, filterVars, playVars, uiVars, debouncedSearchQuery, stations, hasMore, loadingMore,
                 inflight, dirLen, dirBad, epoch, latestApplied, clean>>

\* a catch that reports every rejection, cancellations included
CatchError_NoAbortCheck(name, cur) == FetchError

\* the catch of fetchStations, for a rejection with error name `name` while the error
\* state is cur: an AbortError returns without setting anything
CatchError(name, cur) == IF name = "AbortError" THEN cur ELSE FetchError

\* the requests the search effect's cleanup aborts: the one its own controller was given
Aborted == {r \in inflight : r.kind = "search"}

\* a debounce timer fires: setDebouncedSearchQuery(value). When the value is new the search
\* effect re-runs: its cleanup aborts the previous run's request, the body resets the list
\* and issues the page-1 request; the aborted fetchStations then returns from its catch and
\* its finally block clears both loading flags
P1_debounceFire(t) ==
  /\ variant = "p1"
  /\ t \in timers
  /\ t.remaining = 0
  /\ timers' = timers \ {t}
  /\ IF t.value = debouncedSearchQuery
       THEN UNCHANGED <<debouncedSearchQuery, stations, currentPage, hasMore, loading, error,
                        loadingMore, inflight, epoch, latestApplied, clean>>
       ELSE /\ epoch < MaxCommits + 1
            /\ debouncedSearchQuery' = t.value
            /\ epoch' = epoch + 1
            /\ latestApplied' = FALSE
            /\ clean' = (inflight \ Aborted = {})
            /\ stations' = ResetStations(stations)
            /\ currentPage' = 1
            /\ hasMore' = TRUE
            /\ error' = IF Aborted = {} THEN NoError ELSE CatchError("AbortError", NoError)
            /\ inflight' = (inflight \ Aborted) \cup {Request(1, t.value, "search", epoch + 1)}
            /\ loading' = (Aborted = {})
            /\ loadingMore' = (Aborted = {})
  /\ UNCHANGED <<serverVars, shapeVars, filterVars, playVars, searchQuery, dirLen, dirBad, idleMs, burst>>

\* the Load More button, rendered while hasMore and enabled while not loadingMore
P1_loadMore ==
  /\ variant = "p1"
  /\ P1_Rendered
  /\ hasMore
  /\ ~loadingMore
  /\ currentPage < MaxPage
  /\ currentPage' = currentPage + 1
  /\ loadingMore' = TRUE
  /\ inflight' = inflight \cup {Request(currentPage + 1, debouncedSearchQuery, "more", epoch)}
  /\ UNCHANGED <<serverVars, shapeVars, filterVars, playVars, error, loading, searchQuery, debouncedSearchQuery, timers, stations,
                 hasMore, dirLen, dirBad, epoch, latestApplied, idleMs, burst, clean>>

\* a suspended fetchStations resumes with the handler's answer: page 1 replaces the list,
\* later pages are appended; finally clears both loading flags
P1_fetchOk(r, upOk) ==
  /\ variant = "p1"
  /\ r \in inflight
  /\ inflight' = inflight \ {r}
  /\ LET data == Answer(r.page, r.search, upOk)
     IN  /\ stations' = IF r.page = 1 THEN data.stations ELSE stations \o data.stations
         /\ hasMore' = data.hasMore
  /\ loading' = FALSE
  /\ loadingMore' = FALSE
  /\ latestApplied' = (latestApplied \/ r.kind = "search")
  /\ UNCHANGED <<serverVars, shapeVars, filterVars, playVars, error, currentPage, searchQuery, debouncedSearchQuery, timers,
                 dirLen, dirBad, epoch, idleMs, burst, clean>>

\* a suspended fetchStations resumes with a rejected fetch, a non-OK status or {error}
P1_fetchFailed(r) ==
  /\ variant = "p1"
  /\ r \in inflight
  /\ inflight' = inflight \ {r}
  /\ error' = CatchError("Error", error)
  /\ loading' = FALSE
  /\ loadingMore' = FALSE
  /\ UNCHANGED <<serverVars, shapeVars, filterVars, playVars, currentPage, searchQuery, debouncedSearchQuery, timers, stations,
                 hasMore, dirLen, dirBad, epoch, latestApplied, idleMs, burst, clean>>

\* TickMs milliseconds pass: every pending timer comes closer to firing
Tick ==
  /\ variant = "p1"
  /\ idleMs < DEBOUNCE_MS \/ \E t \in timers : t.remaining > 0
  /\ idleMs' = Min(idleMs + TickMs, DEBOUNCE_MS)
  /\ timers' = {[value |-> t.value,
                 remaining |-> IF t.remaining > TickMs THEN t.remaining - TickMs ELSE 0] :
                  t \in timers}
  /\ UNCHANGED <<serverVars, shapeVars, filterVars, playVars, uiVars, searchQuery, debouncedSearchQuery, stations, hasMore,
                 loadingMore, inflight, dirLen, dirBad, epoch, latestApplied, burst, clean>>

\* the empty query's directory list, as <<dirLen, dirBad>>: two full pages with a blank
\* record in the second, or two full pages and a short third
Directories ==
  {<<2 * STATIONS_PER_PAGE, STATIONS_PER_PAGE + 1>>, <<2 * STATIONS_PER_PAGE + 1, 0>>}

\* the component right after mount: the debounce effect has started its timer, the
\* initial-load effect and the search effect have each issued a page-1 request
InitSearch ==
  /\ ServerIdle
  /\ variant = "p1"
  /\ PlayIdle
  /\ FiltersIdle
  /\ ShapeIdle
  /\ error = NoError
  /\ loading = TRUE
  /\ currentPage = 1
  /\ searchQuery = <<>>
  /\ debouncedSearchQuery = <<>>
  /\ timers = {[value |-> <<>>, remaining |-> DEBOUNCE_MS]}
  /\ stations = <<>>
  /\ hasMore = TRUE
  /\ loadingMore = TRUE
  /\ inflight = {Request(1, <<>>, "mount", 0), Request(1, <<>>, "search", 1)}
  /\ \E d \in Directories : dirLen = d[1] /\ dirBad = d[2]
  /\ epoch = 1
  /\ latestApplied = FALSE
  /\ idleMs = 0
  /\ burst = 0
  /\ clean = TRUE

NextSearch ==
  \/ \E v \in Inputs : P1_setSearchQuery(v)
  \/ \E t \in timers : P1_debounceFire(t)
  \/ P1_loadMore
  \/ \E r \in inflight, upOk \in BOOLEAN : P1_fetchOk(r, upOk)
  \/ \E r \in inflight : P1_fetchFailed(r)
  \/ Tick

SpecSearch == InitSearch /\ [][NextSearch]_vars

\* part_001 when every request is answered with the directory's page: no fetch fails and
\* the handler's upstream request succeeds
NextSearchLive ==
  \/ \E v \in Inputs : P1_setSearchQuery(v)
  \/ \E t \in timers : P1_debounceFire(t)
  \/ P1_loadMore
  \/ \E r \in inflight : P1_fetchOk(r, TRUE)
  \/ Tick

\* time passes, a timer that is due fires and a request in flight gets its response; the
\* user's typing and Load More are under no obligation. The last conjunct is weak fairness
\* of request completion written out: a response can be delivered exactly when a request
\* is in flight, so either no request is in flight infinitely often or responses are
\* delivered infinitely often
SpecSearchLive ==
  /\ InitSearch
  /\ [][NextSearchLive]_vars
  /\ WF_vars(Tick)
  /\ WF_vars(\E t \in timers : P1_debounceFire(t))
  /\ ([]<>(inflight = {}) \/ []<><<\E r \in inflight : P1_fetchOk(r, TRUE)>>_vars)

\* ------------------------------- filters and pagination (RadioPlayer.tsx)
\* the applied filter set a fetchStations closure has captured
AppliedFilters == [query |-> searchQuery, tag |-> selectedTag, country |-> selectedCountry]

\* the array /api/stations answers with for limit, offset and a filter set: the usable
\* records of the directory's page; the directory narrows its list by the filter values
TsxAnswer(page, f) ==
  MapSeq(SelectSeq(UpstreamSearch(f.query \o f.tag \o f.country, (page - 1) * STATIONS_PER_PAGE,
                                  STATIONS_PER_PAGE, dirLen, dirBad), Usable))

\* the query string fetchStations(page) builds from the filter set f it has captured:
\* limit and offset always, query, tag and country when not empty
TsxParams(page, f) ==
  LET base == [limit |-> toString(STATIONS_PER_PAGE),
               offset |-> toString((page - 1) * STATIONS_PER_PAGE)]
      keys == {"limit", "offset"} \cup {k \in {"query", "tag", "country"} : f[k] # <<>>}
  IN  [k \in keys |-> IF k \in DOMAIN base THEN base[k] ELSE f[k]]

TsxFetchError == <<"Failed to fetch stations">>

Fields == {"query", "tag", "country"}

\* handleKeyPress with Enter on a filter field: setter(value). When the value is new the
\* filter effect re-runs: page 1, empty list, fetchStations(1) with the new filter set;
\* requests already in flight are left alone
Tsx_handleKeyPress(field, value) ==
  /\ variant = "tsx"
  /\ epoch < MaxFilterCommits + 1
  /\ value # AppliedFilters[field]
  /\ searchQuery' = IF field = "query" THEN value ELSE searchQuery
  /\ selectedTag' = IF field = "tag" THEN value ELSE selectedTag
  /\ selectedCountry' = IF field = "country" THEN value ELSE selectedCountry
  /\ epoch' = epoch + 1
  /\ currentPage' = 1
  /\ stations' = ResetStations(stations)
  /\ loading' = TRUE
  /\ inflight' = inflight \cup {Request(1, AppliedFilters', "filter", epoch + 1)}
  /\ UNCHANGED <<serverVars, shapeVars, playVars, error, debouncedSearchQuery, timers, hasMore, loadingMore,
                 dirLen, dirBad, latestApplied, idleMs, burst, clean>>

\* the Load More button, rendered while hasMore and not loading
Tsx_loadMore ==
  /\ variant = "tsx"
  /\ ~loading
  /\ hasMore
  /\ currentPage < MaxPage
  /\ currentPage' = currentPage + 1
  /\ loading' = TRUE
  /\ inflight' = inflight \cup {Request(currentPage + 1, AppliedFilters, "more", epoch)}
  /\ UNCHANGED <<serverVars, shapeVars, playVars, filterVars, error, searchQuery, debouncedSearchQuery, timers,
                 stations, hasMore, loadingMore, dirLen, dirBad, epoch, latestApplied, idleMs,
                 burst, clean>>

\* a suspended fetchStations resumes with the array: page 1 replaces the list, later pages
\* are appended; hasMore is whether the array is a full page
Tsx_fetchOk(r) ==
  /\ variant = "tsx"
  /\ r \in inflight
  /\ inflight' = inflight \ {r}
  /\ LET data == TsxAnswer(r.page, r.search)
     IN  /\ stations' = IF r.page = 1 THEN data ELSE stations \o data
         /\ hasMore' = (Len(data) = STATIONS_PER_PAGE)
  /\ error' = NoError
  /\ loading' = FALSE
  /\ UNCHANGED <<serverVars, shapeVars, playVars, filterVars, currentPage, searchQuery, debouncedSearchQuery,
                 timers, loadingMore, dirLen, dirBad, epoch, latestApplied, idleMs, burst, clean>>

\* a suspended fetchStations resumes with a rejection or an {error} body
Tsx_fetchFailed(r) ==
  /\ variant = "tsx"
  /\ r \in inflight
  /\ inflight' = inflight \ {r}
  /\ error' = TsxFetchError
  /\ loading' = FALSE
  /\ UNCHANGED <<serverVars, shapeVars, playVars, filterVars, currentPage, searchQuery, debouncedSearchQuery,
                 timers, stations, hasMore, loadingMore, dirLen, dirBad, epoch, latestApplied,
                 idleMs, burst, clean>>

\* the component right after mount: the filter effect has issued the page-1 request for
\* the empty filter set
InitTsx ==
  /\ ServerIdle
  /\ variant = "tsx"
  /\ PlayIdle
  /\ FiltersIdle
  /\ ShapeIdle
  /\ error = NoError
  /\ loading = TRUE
  /\ currentPage = 1
  /\ searchQuery = <<>>
  /\ debouncedSearchQuery = <<>>
  /\ timers = {}
  /\ stations = <<>>
  /\ hasMore = TRUE
  /\ loadingMore = FALSE
  /\ inflight = {Request(1, [query |-> <<>>, tag |-> <<>>, country |-> <<>>], "filter", 1)}
  /\ \E d \in Directories : dirLen = d[1] /\ dirBad = d[2]
  /\ epoch = 1
  /\ latestApplied = FALSE
  /\ idleMs = 0
  /\ burst = 0
  /\ clean = TRUE

NextTsx ==
  \/ \E field \in Fields, value \in Inputs : Tsx_handleKeyPress(field, value)
  \/ Tsx_loadMore
  \/ \E r \in inflight : Tsx_fetchOk(r)
  \/ \E r \in inflight : Tsx_fetchFailed(r)

SpecTsx == InitTsx /\ [][NextTsx]_vars

\* -------------------------------------- client-side filter (part_000)
\* A code point is a one-element string; "e/" stands for U+00E9 (e with acute), "E/" for
\* U+00C9 and "/" for the combining acute accent U+0301.
UpperCase == <<"A", "B", "C", "D", "E", "F", "G", "H", "I", "J", "K", "L", "M",
               "N", "O", "P", "Q", "R", "S", "T", "U", "V", "W", "X", "Y", "Z">>
LowerCase == <<"a", "b", "c", "d", "e", "f", "g", "h", "i", "j", "k", "l", "m",
               "n", "o", "p", "q", "r", "s", "t", "u", "v", "w", "x", "y", "z">>

\* a decomposition that leaves precomposed letters as they are
NFD_Precomposed(c) == <<c>>

\* canonical decomposition of one code point
NFD(c) ==
  IF c = "e/" THEN <<"e", "/">>
  ELSE IF c = "E/" THEN <<"E", "/">>
  ELSE <<c>>

RECURSIVE normalize(_)
\* String.prototype.normalize('NFD')
normalize(text) == IF text = <<>> THEN <<>> ELSE NFD(Head(text)) \o normalize(Tail(text))

\* .replace(/[\u0300-\u036f]/g, ''): the combining marks are removed
RemoveMarks(text) == SelectSeq(text, LAMBDA c : c # "/")

\* String.prototype.toLowerCase(), code point by code point
toLowerCase(text) ==
  [k \in 1..Len(text) |->
     IF \E i \in 1..26 : UpperCase[i] = text[k]
       THEN LowerCase[CHOOSE i \in 1..26 : UpperCase[i] = text[k]]
     ELSE IF text[k] = "E/" THEN "e/"
     ELSE text[k]]

\* normalizeText
normalizeText(text) == Trim(toLowerCase(RemoveMarks(normalize(text))))

RECURSIVE SplitSpaces(_, _, _)
\* String.prototype.split(/\s+/): cur is the piece being read, inRun says the last code
\* point was a space
SplitSpaces(text, cur, inRun) ==
  IF text = <<>> THEN <<cur>>
  ELSE IF Head(text) = " "
    THEN IF inRun THEN SplitSpaces(Tail(text), cur, TRUE)
         ELSE <<cur>> \o SplitSpaces(Tail(text), <<>>, TRUE)
  ELSE SplitSpaces(Tail(text), Append(cur, Head(text)), FALSE)

split(text) == SplitSpaces(text, <<>>, FALSE)

\* String.prototype.includes(term)
includes(text, term) ==
  \E i \in 0..(Len(text) - Len(term)) : SubSeq(text, i + 1, i + Len(term)) = term

\* the useMemo filteredStations
filteredStations(allStations, query) ==
  IF query = <<>> THEN allStations
  ELSE LET searchTerms == split(normalizeText(query))
       IN  SelectSeq(allStations,
             LAMBDA station :
               LET normalizedName == normalizeText(station.name)
                   normalizedTags == IF station.tags # <<>> THEN normalizeText(station.tags)
                                     ELSE <<>>
               IN  \A k \in 1..Len(searchTerms) :
                     \/ includes(normalizedName, searchTerms[k])
                     \/ includes(normalizedTags, searchTerms[k]))

\* the effect that sets displayedStations
displayedStations(allStations, query, page) ==
  IF query # <<>> THEN filteredStations(allStations, query)
  ELSE SubSeq(allStations, 1, Min(page * STATIONS_PER_PAGE, Len(allStations)))

\* const hasMore = !debouncedSearchQuery && currentPage * STATIONS_PER_PAGE < length
P0_hasMore(allStations, query, page) ==
  query = <<>> /\ page * STATIONS_PER_PAGE < Len(filteredStations(allStations, query))

\* the stations the initial fetch loaded into allStations
AllStations ==
  <<[id |-> 1, name |-> <<"C", "a", "f", "e", " ", "R", "a", "d", "i", "o">>, tags |-> <<"j", "a", "z", "z">>],
    [id |-> 2, name |-> <<"C", "a", "f", "e/", " ", "R", "a", "d", "i", "o">>, tags |-> <<>>],
    [id |-> 3, name |-> <<"R", "o", "c", "k", " ", "F", "M">>, tags |-> <<"r", "o", "c", "k">>],
    [id |-> 4, name |-> <<"R", "o", "c", "k", " ", "L", "o", "n", "d", "o", "n">>, tags |-> <<"C", "a", "f", "e/">>],
    [id |-> 5, name |-> <<"C", "a", "p", "i", "t", "a", "l">>, tags |-> <<"L", "O", "N", "D", "O", "N", " ", "r", "o", "c", "k">>],
    [id |-> 6, name |-> <<" ", "E/", "C", "O", "L", "E", " ">>, tags |-> <<"c", "a", "f", "e", "/">>]>>

\* the words the user types
Words ==
  {<<"c", "a", "f", "e/">>, <<"c", "a", "f", "e">>, <<"C", "A", "F", "E/">>, <<"r", "o", "c", "k">>, <<"l", "o", "n", "d", "o", "n">>, <<"r", "a", "d", "i", "o">>, <<"c", "a", "p">>, <<"j", "a", "z", "z">>}

\* the texts the user commits: one word, two words with one or two spaces between them,
\* a word within spaces, spaces only, and nothing
Queries ==
  Words \cup {w \o <<" ">> \o v : w, v \in Words}
        \cup {w \o <<" ", " ">> \o v : w, v \in Words}
        \cup {<<" ">> \o w \o <<" ">> : w \in Words}
        \cup {<<" ">>, <<>>}

\* the debounce timer fires with the typed text q: setDebouncedSearchQuery(q), then the
\* effects reset the page and set displayedStations
P0_commit(q) ==
  /\ variant = "p0"
  /\ q # debouncedSearchQuery
  /\ searchQuery' = q
  /\ debouncedSearchQuery' = q
  /\ currentPage' = 1
  /\ stations' = displayedStations(AllStations, q, 1)
  /\ hasMore' = P0_hasMore(AllStations, q, 1)
  /\ UNCHANGED <<serverVars, shapeVars, filterVars, playVars, error, loading, timers, loadingMore, inflight,
                 dirLen, dirBad, epoch, latestApplied, idleMs, burst, clean>>

\* the Load More button, rendered while hasMore
P0_loadMore ==
  /\ variant = "p0"
  /\ hasMore
  /\ currentPage' = currentPage + 1
  /\ stations' = displayedStations(AllStations, debouncedSearchQuery, currentPage + 1)
  /\ hasMore' = P0_hasMore(AllStations, debouncedSearchQuery, currentPage + 1)
  /\ UNCHANGED <<serverVars, shapeVars, filterVars, playVars, error, loading, searchQuery, debouncedSearchQuery,
                 timers, loadingMore, inflight, dirLen, dirBad, epoch, latestApplied, idleMs,
                 burst, clean>>

\* the component after the initial fetch has filled allStations: the first page is shown
InitP0 ==
  /\ ServerIdle
  /\ variant = "p0"
  /\ PlayIdle
  /\ FiltersIdle
  /\ ShapeIdle
  /\ error = NoError
  /\ loading = FALSE
  /\ currentPage = 1
  /\ searchQuery = <<>>
  /\ debouncedSearchQuery = <<>>
  /\ timers = {}
  /\ stations = displayedStations(AllStations, <<>>, 1)
  /\ hasMore = P0_hasMore(AllStations, <<>>, 1)
  /\ loadingMore = FALSE
  /\ inflight = {}
  /\ dirLen = Len(AllStations)
  /\ dirBad = 0
  /\ epoch = 0
  /\ latestApplied = FALSE
  /\ idleMs = 0
  /\ burst = 0
  /\ clean = TRUE

NextP0 ==
  \/ \E q \in Queries : P0_commit(q)
  \/ P0_loadMore

SpecP0 == InitP0 /\ [][NextP0]_vars

\* ------------------------- response bodies (RadioPlayer.tsx, part_001, route.ts)
\* the body NextResponse.json({stations, page, limit, hasMore}) of the listing branch
ObjectBody(items, limit) ==
  [shape |-> "object", stations |-> items, hasMore |-> Len(items) = limit]

\* a body that is the bare array of stations
ArrayBody(items) == [shape |-> "array", items |-> items]

\* the stations the directory has for a page of the empty query, as the handler maps them
PageItems(page) ==
  MapSeq(SelectSeq(UpstreamSearch(<<>>, (page - 1) * STATIONS_PER_PAGE, STATIONS_PER_PAGE,
                                  dirLen, dirBad), Usable))

\* the bodies a request for a page may get: the page, or no station at all when the
\* handler's upstream request failed, in either shape
Bodies(page) ==
  {ObjectBody(PageItems(page), STATIONS_PER_PAGE), ArrayBody(PageItems(page)),
   ObjectBody(<<>>, STATIONS_PER_PAGE), ArrayBody(<<>>)}

\* RadioPlayer.tsx after `data = await response.json()`: data itself is taken as the
\* array. For an object body, setStations(data) stores the object and the updater
\* [...prev, ...data] throws when React runs it; data.length is undefined
Tsx_handleData(page, prev, data) ==
  IF data.shape = "array"
    THEN [stations |-> IF page = 1 THEN data.items ELSE prev \o data.items,
          isArray |-> TRUE,
          hasMore |-> Len(data.items) = STATIONS_PER_PAGE]
    ELSE [stations |-> <<>>, isArray |-> FALSE, hasMore |-> FALSE]

\* part_001 after `data = await response.json()`: data.stations and data.hasMore are
\* read. For an array body both are undefined: setStations(undefined), and the updater
\* [...prev, ...undefined] throws when React runs it
P1_handleData(page, prev, data) ==
  IF data.shape = "object"
    THEN [stations |-> IF page = 1 THEN data.stations ELSE prev \o data.stations,
          isArray |-> TRUE,
          hasMore |-> data.hasMore]
    ELSE [stations |-> <<>>, isArray |-> FALSE, hasMore |-> FALSE]

\* fetchStations(page) resumes with a body of either shape; page is 1 (mount, or a filter
\* change) or the next page (Load More, shown while hasMore)
Client_handleData(page, data) ==
  /\ variant \in {"tsx", "p1"}
  /\ listOk
  /\ received.n < MaxReceipts
  /\ page = 1 \/ (received.n > 0 /\ hasMore /\ page = currentPage + 1)
  /\ LET next == IF variant = "tsx" THEN Tsx_handleData(page, stations, data)
                  ELSE P1_handleData(page, stations, data)
     IN  /\ stations' = next.stations
         /\ listOk' = next.isArray
         /\ hasMore' = next.hasMore
  /\ currentPage' = page
  /\ received' = [n |-> received.n + 1, page |-> page, body |-> data]
  /\ UNCHANGED <<serverVars, filterVars, playVars, error, loading, searchQuery,
                 debouncedSearchQuery, timers, loadingMore, inflight, dirLen, dirBad, epoch,
                 latestApplied, idleMs, burst, clean>>

\* a component with an empty list, its page-1 request answered next
InitShape ==
  /\ ServerIdle
  /\ variant \in {"tsx", "p1"}
  /\ PlayIdle
  /\ FiltersIdle
  /\ ShapeIdle
  /\ error = NoError
  /\ loading = FALSE
  /\ currentPage = 1
  /\ searchQuery = <<>>
  /\ debouncedSearchQuery = <<>>
  /\ timers = {}
  /\ stations = <<>>
  /\ hasMore = TRUE
  /\ loadingMore = FALSE
  /\ inflight = {}
  /\ \E d \in Directories : dirLen = d[1] /\ dirBad = d[2]
  /\ epoch = 0
  /\ latestApplied = FALSE
  /\ idleMs = 0
  /\ burst = 0
  /\ clean = TRUE

NextShape == \E page \in 1..MaxPage : \E data \in Bodies(page) : Client_handleData(page, data)

SpecShape == InitShape /\ [][NextShape]_vars

\* ------------------------- the two paginated lists (part_001, RadioPlayer.tsx)
\* either component is mounted
InitList == InitSearch \/ InitTsx

NextList == NextSearch \/ NextTsx

SpecList == InitList /\ [][NextList]_vars

\* ------------------------------------------------- favorites store (db.ts)
\* no component is part of the behaviour: the client state stays as after InitPlay
ClientIdle == variant = "p1" /\ InitPlay

\* SELECT id FROM favorites WHERE station_id = ?
SelectFavorite(rows, stationId) == {r \in rows : r.station_id = stationId}

\* a DELETE of the one row the SELECT returned (the row with the lowest id)
DeleteFavorite_OneRow(rows, stationId) ==
  {r \in rows : r.station_id # stationId
                 \/ \E q \in rows : q.station_id = stationId /\ q.id < r.id}

\* DELETE FROM favorites WHERE station_id = ?
DeleteFavorite(rows, stationId) == rows \ SelectFavorite(rows, stationId)

\* INSERT INTO favorites (station_id) VALUES (?): the table has no UNIQUE constraint on
\* station_id, the row gets the next AUTOINCREMENT id
InsertFavorite(rows, seq, stationId) == rows \cup {[id |-> seq + 1, station_id |-> stationId]}

\* toggleFavorite(stationId) run from entry to return on the table [rows, seq]
toggleFavorite(tbl, stationId) ==
  IF SelectFavorite(tbl.rows, stationId) # {}
    THEN [rows |-> DeleteFavorite(tbl.rows, stationId), seq |-> tbl.seq]
    ELSE [rows |-> InsertFavorite(tbl.rows, tbl.seq, stationId), seq |-> tbl.seq + 1]

\* the station ids that getFavorites joins on
FavoritedIds(rows) == {r.station_id : r \in rows}

\* a caller enters toggleFavorite(stationId)
TF_call(c, stationId) ==
  /\ tf[c].pc = "idle"
  /\ toggles < MaxToggles
  /\ toggles' = toggles + 1
  /\ tf' = [tf EXCEPT ![c] = [pc |-> "select", stationId |-> stationId, exists |-> FALSE]]
  /\ UNCHANGED <<clientVars, shapeVars, dbVars, discoveryVars, favorites, favSeq, reqPage, reqLimit, upstream, response>>

\* const exists = db.prepare('SELECT ...').get(stationId): a statement of its own, in
\* autocommit mode
TF_select(c) ==
  /\ tf[c].pc = "select"
  /\ tf' = [tf EXCEPT ![c].pc = "write",
                      ![c].exists = SelectFavorite(favorites, tf[c].stationId) # {}]
  /\ UNCHANGED <<clientVars, shapeVars, dbVars, discoveryVars, favorites, favSeq, toggles, reqPage, reqLimit, upstream, response>>

\* if (exists) DELETE ... else INSERT ...: the second statement, and the return
TF_write(c) ==
  /\ tf[c].pc = "write"
  /\ IF tf[c].exists
       THEN /\ favorites' = DeleteFavorite(favorites, tf[c].stationId)
            /\ UNCHANGED favSeq
       ELSE /\ favorites' = InsertFavorite(favorites, favSeq, tf[c].stationId)
            /\ favSeq' = favSeq + 1
  /\ tf' = [tf EXCEPT ![c] = NoCall]
  /\ UNCHANGED <<clientVars, shapeVars, dbVars, discoveryVars, toggles, reqPage, reqLimit, upstream, response>>

\* INSERT INTO stations (name, url, favicon, tags) VALUES (?, ?, ?, ?): the table has no
\* UNIQUE constraint, the row gets the next AUTOINCREMENT id
InsertStation(rows, seq, station) == rows \cup {StationRow(seq + 1, station)}

\* addStation(station): one INSERT statement
addStation(station) ==
  /\ adds < MaxAdds
  /\ adds' = adds + 1
  /\ stationTable' = InsertStation(stationTable, stationSeq, station)
  /\ stationSeq' = stationSeq + 1
  /\ UNCHANGED <<clientVars, shapeVars, discoveryVars, favorites, favSeq, tf, toggles, reqPage, reqLimit,
                 upstream, response>>

InitFav == ClientIdle

NextFav ==
  \/ \E station \in NewStations : addStation(station)
  \/ \E c \in Callers, stationId \in StationRows : TF_call(c, stationId)
  \/ \E c \in Callers : TF_select(c)
  \/ \E c \in Callers : TF_write(c)

SpecFav == InitFav /\ [][NextFav]_vars

\* ------------------------------------------- mirror discovery (route.ts)
\* the test at the top of getRadioBrowserServers
CacheFresh(cache, last, t) == Len(cache) > 0 /\ (t - last) < ONE_HOUR

\* a catch that logs and rethrows
LookupCatch_Rethrow == [threw |-> TRUE, value |-> <<>>]

\* the catch of getRadioBrowserServers: the fallback hosts are returned, nothing is thrown
LookupCatch == [threw |-> FALSE, value |-> Fallback]

\* a catch that empties the cache
CacheAfterFailure_Clear(cache) == <<>>

\* the cache after a failed lookup: the catch does not assign cachedServers
CacheAfterFailure(cache) == cache

\* a lookup that caches the hosts without stamping the time
FetchStamp_Keep(last, t) == last

\* lastServerFetch after a successful lookup at time t
FetchStamp(last, t) == t

\* fetchRadioBrowserStations (or trackStationClick) calls getRadioBrowserServers: a fresh
\* cache is returned at once, otherwise the call is suspended at resolveSrv
Servers_call(c) ==
  /\ gs[c].pc = "idle"
  /\ serverCalls < MaxServerCalls
  /\ serverCalls' = serverCalls + 1
  /\ gs' = [gs EXCEPT ![c] =
              IF CacheFresh(cachedServers, lastServerFetch, now)
                THEN [pc |-> "have", ret |-> cachedServers, host |-> "", failed |-> FALSE,
                      lookedUp |-> FALSE]
                ELSE [pc |-> "lookup", ret |-> <<>>, host |-> "", failed |-> FALSE,
                      lookedUp |-> TRUE]]
  /\ UNCHANGED <<clientVars, shapeVars, dbVars, favorites, favSeq, tf, toggles, reqPage, reqLimit, upstream, response,
                 cachedServers, lastServerFetch, now, lastSuccess>>

\* resolveSrv resolves: the names are cached, stamped and returned
Servers_resolved(c, hosts) ==
  /\ gs[c].pc = "lookup"
  /\ cachedServers' = hosts
  /\ lastServerFetch' = FetchStamp(lastServerFetch, now)
  /\ lastSuccess' = [at |-> now, hosts |-> hosts]
  /\ gs' = [gs EXCEPT ![c].pc = "have", ![c].ret = hosts]
  /\ UNCHANGED <<clientVars, shapeVars, dbVars, favorites, favSeq, tf, toggles, reqPage, reqLimit, upstream, response,
                 now, serverCalls>>

\* resolveSrv rejects: the catch runs
Servers_failed(c) ==
  /\ gs[c].pc = "lookup"
  /\ cachedServers' = CacheAfterFailure(cachedServers)
  /\ gs' = [gs EXCEPT ![c].pc = IF LookupCatch.threw THEN "threw" ELSE "have",
                      ![c].ret = LookupCatch.value,
                      ![c].failed = TRUE]
  /\ UNCHANGED <<clientVars, shapeVars, dbVars, favorites, favSeq, tf, toggles, reqPage, reqLimit, upstream, response,
                 lastServerFetch, now, lastSuccess, serverCalls>>

\* fetchRadioBrowserStations goes on: servers[Math.floor(Math.random() * servers.length)]
\* is any element of the list, and the request to that host is issued
Stations_request(c, k) ==
  /\ gs[c].pc = "have"
  /\ k \in DOMAIN gs[c].ret
  /\ gs' = [gs EXCEPT ![c].pc = "idle", ![c].host = gs[c].ret[k]]
  /\ UNCHANGED <<clientVars, shapeVars, dbVars, favorites, favSeq, tf, toggles, reqPage, reqLimit, upstream, response,
                 cachedServers, lastServerFetch, now, lastSuccess, serverCalls>>

\* ClockStepMs milliseconds pass
ClockTick ==
  /\ now + ClockStepMs <= ONE_HOUR + MaxClockSteps * ClockStepMs
  /\ now' = now + ClockStepMs
  /\ UNCHANGED <<clientVars, shapeVars, dbVars, favorites, favSeq, tf, toggles, reqPage, reqLimit, upstream, response,
                 cachedServers, lastServerFetch, gs, lastSuccess, serverCalls>>

InitServers == ClientIdle

NextServers ==
  \/ \E c \in Resolvers : Servers_call(c)
  \/ \E c \in Resolvers, hosts \in HostLists : Servers_resolved(c, hosts)
  \/ \E c \in Resolvers : Servers_failed(c)
  \/ \E c \in Resolvers, k \in 1..3 : Stations_request(c, k)
  \/ ClockTick

SpecServers == InitServers /\ [][NextServers]_vars

\* ------------------------------------------ GET /api/stations (route.ts)
\* an upstream record of one of four kinds: usable, with a blank name, with an empty or
\* missing name, with an empty or missing url
RecordOfKind(id, kind) ==
  IF kind = "nourl" THEN [UpstreamRecord(id, FALSE) EXCEPT !.url = <<>>]
  ELSE IF kind = "noname" THEN [UpstreamRecord(id, FALSE) EXCEPT !.name = <<>>]
  ELSE UpstreamRecord(id, kind = "blank")

RecordKinds == {"usable", "blank", "noname", "nourl"}

\* the bodies the directory can answer a request for `limit` records from `offset` with:
\* at most limit records, of any kinds, with the ids following the offset
UpstreamBodies(offset, limit) ==
  UNION {{[k \in 1..n |-> RecordOfKind(offset + k, kinds[k])] : kinds \in [1..n -> RecordKinds]}
         : n \in 0..limit}

LimitParams == {toString(n) : n \in 0..MaxLimit}

PageParams == {<<>>, <<"1">>, <<"2">>}

\* a request has arrived and the directory has answered the handler's search
InitGet ==
  /\ variant = "p1"
  /\ PlayIdle
  /\ FiltersIdle
  /\ ShapeIdle
  /\ error = NoError
  /\ loading = FALSE
  /\ currentPage = 1
  /\ searchQuery = <<>>
  /\ debouncedSearchQuery = <<>>
  /\ timers = {}
  /\ dirLen = 2
  /\ dirBad = 0
  /\ stations = <<>>
  /\ hasMore = FALSE
  /\ loadingMore = FALSE
  /\ inflight = {}
  /\ epoch = 1
  /\ latestApplied = TRUE
  /\ idleMs = 0
  /\ burst = 0
  /\ clean = TRUE
  /\ favorites = {}
  /\ favSeq = 0
  /\ tf = [c \in Callers |-> NoCall]
  /\ toggles = 0
  /\ DiscoveryIdle
  /\ StationsStored
  /\ reqPage \in PageParams
  /\ reqLimit \in LimitParams
  /\ upstream \in [ok : BOOLEAN,
                   body : UpstreamBodies(GETOffset(reqPage, reqLimit), parseInt(reqLimit))]
  /\ response = NoResponse

\* the handler returns NextResponse.json({stations, page, limit, hasMore})
GET_respond ==
  /\ response = NoResponse
  /\ response' = GET(reqPage, reqLimit, upstream)
  /\ UNCHANGED <<clientVars, shapeVars, dbVars, discoveryVars, favorites, favSeq, tf, toggles, reqPage, reqLimit, upstream>>

NextGet == GET_respond

SpecGet == InitGet /\ [][NextGet]_vars

\* ------------------------------------------------------------ playback claims
\* C1: in the click-reporting players at most one audio session that was created and
\* not yet unloaded exists at any time, under every interleaving of play(), stop()
\* and click-report completions.
C1_AtMostOneLiveSession ==
  variant = "p1" => Cardinality(LiveSessions) <= 1

\* C3: play(station) does not wait for the click report: no playStation call is ever
\* left without its audio session because its click-report request has not completed.
C3_PlayDoesNotAwaitClick ==
  clickPending = EmptyBag

\* C6: after play(A) directly followed by play(A), in either component, now-playing
\* is none and no session for A is live (in this state or any later one before the
\* next user call), started or not when the second call was made.
C6_PlayTwiceStops ==
  \A s \in Displayed :
    calls = <<s.id, s.id>> =>
      /\ currentStation = NoStation
      /\ ~BagIn(s, clickPending)
      /\ \A i \in LiveSessions : sessions[i].station.id # s.id

\* C7: whenever the audio engine reports a load failure for a session, in either
\* component, now-playing becomes none and the error message names that station.
C7_LoadFailureClearsNowPlaying ==
  [][\A i \in DOMAIN sessions :
       (sessions[i].state = "loading" /\ sessions'[i].state = "failed") =>
         /\ currentStation' = NoStation
         /\ error' = LoadError(sessions[i].station.name)]_vars

\* C12: in part_001 / part_000, after the stream of station A could not be loaded, the
\* user can still call play(B) for another listed station.
C12_PlayableAfterLoadFailure ==
  \A i \in DOMAIN sessions :
    (variant = "p1" /\ sessions[i].state = "failed" /\ Len(calls) < MaxCalls) =>
      \E s \in Displayed : s.id # sessions[i].station.id /\ ENABLED P1_playStation(s)

\* C25: the click report is best-effort: a GET with action=click and a station id answers
\* {success: true} even when the report to the directory fails, and in part_001 a click
\* request that failed or was rejected never keeps play(station) from creating and
\* starting the audio session
C25_ClickReportIsBestEffort ==
  [][\A s \in Displayed :
       (BagIn(s, clickPending) /\ clickPending' = clickPending (-) SetToBag({s})) =>
         LET n == Len(sessions')
         IN  /\ n = Len(sessions) + 1
             /\ sessions'[n].station = s
             /\ sessions'[n].src = s.url
             /\ sessions'[n].state = "loading"
             /\ player' = n
             /\ sessions'[n].click.settled = "resolved" =>
                  (sessions'[n].click.status = 200 /\ sessions'[n].click.success)]_vars

\* a session whose click request was rejected is playing, and another was created after
\* a click request answered {success: true} although the directory did not get the report
C25_Witness ==
  /\ \E i \in DOMAIN sessions :
       sessions[i].click.settled = "rejected" /\ sessions[i].state = "playing"
  /\ \E i \in DOMAIN sessions :
       /\ sessions[i].click.settled = "resolved"
       /\ sessions[i].click.success
       /\ ~sessions[i].click.reported

\* stopPlaying runs in this step: the Stop button, or playStation on the now-playing
\* station in part_001
StopStep ==
  /\ Len(calls') = Len(calls) + 1
  /\ \/ calls'[Len(calls')] = 0
     \/ (variant = "p1" /\ currentStation # NoStation
                        /\ calls'[Len(calls')] = currentStation.id)

\* C26: stop() tears down the active session and clears now-playing: after stop() no
\* audio session is live and now-playing is none; with no session held, stop() changes
\* no state
C26_StopLeavesNothingLive ==
  [][StopStep =>
       /\ LiveSessions' = {}
       /\ currentStation' = NoStation
       /\ player = 0 => UNCHANGED <<sessions, player, currentStation>>]_vars

\* C27: in RadioPlayer.tsx, after any sequence of play() and stop() calls, each handled to
\* completion before the next, an audio session is live if and only if now-playing is
\* set, there is never more than one, it is the held player and it is bound to the
\* now-playing station's stream URL; after play(A), play(B) only B's session is live
C27_OneSessionForNowPlaying ==
  variant = "tsx" =>
    /\ LiveSessions # {} <=> currentStation # NoStation
    /\ Cardinality(LiveSessions) <= 1
    /\ \A i \in LiveSessions :
         /\ i = player
         /\ sessions[i].station = currentStation
         /\ sessions[i].src = currentStation.url
    /\ calls # <<>> =>
         IF calls[Len(calls)] = 0 THEN LiveSessions = {}
         ELSE /\ LiveSessions = {Len(sessions)}
              /\ currentStation.id = calls[Len(calls)]

\* play(1) then play(2) in RadioPlayer.tsx: the session of station 1 is unloaded, that of
\* station 2 is the only live one
C27_Witness ==
  /\ variant = "tsx"
  /\ calls = <<1, 2>>
  /\ sessions[1].state = "unloaded"
  /\ sessions[1].station.id = 1
  /\ LiveSessions = {2}
  /\ currentStation.id = 2

\* C29: in part_001 / part_000, whenever now-playing is station S exactly one live
\* (created, not unloaded) audio session exists and it is bound to S's stream URL; the
\* station shown as now-playing is never one whose session has been unloaded
C29_NowPlayingHasOneLiveSession ==
  (variant = "p1" /\ currentStation # NoStation) =>
    /\ Cardinality(LiveSessions) = 1
    /\ \A i \in LiveSessions :
         sessions[i].station = currentStation /\ sessions[i].src = currentStation.url

\* C30: in part_001 / part_000, once stop() has been invoked no audio session is live and
\* none becomes live until play() is invoked again; a play() that was awaiting its click
\* report when stop() ran does not start a session afterwards
C30_NothingLiveAfterStop ==
  (variant = "p1" /\ calls # <<>> /\ calls[Len(calls)] = 0) => LiveSessions = {}

\* -------------------------------------------------------------- search claims
\* ids of the stations in a list
Ids(list) == {list[k].id : k \in DOMAIN list}

\* the request r settles in this step (it is not the search effect aborting it)
Settles(r) == r \in inflight /\ r \notin inflight' /\ epoch' = epoch

\* C2: once the page-1 response of the latest committed query has been applied, no
\* response to a request issued before that commit (the mount-time fetch, a loadMore
\* fetch of a previous query) changes the displayed list.
C2_LastCommittedFilterWins ==
  [][\A r \in inflight :
       (Settles(r) /\ latestApplied /\ r.epoch < epoch) => stations' = stations]_vars

\* C5: a value becomes the committed query only when it is the current raw input and the
\* input has not changed for DEBOUNCE_MS, and every request issued carries the committed
\* query: a value replaced within the window is never committed and never requested.
C5_DebounceCommitsQuietInput ==
  [][/\ debouncedSearchQuery' # debouncedSearchQuery =>
          /\ debouncedSearchQuery' = searchQuery
          /\ idleMs >= DEBOUNCE_MS
     /\ \A r \in inflight' \ inflight :
          /\ r.search = debouncedSearchQuery'
          /\ r.kind = "search" => debouncedSearchQuery' # debouncedSearchQuery]_vars

\* C5 witness: after two raw input changes within the window, ending at "ab", the one
\* commit made is for "ab" and its request is in flight.
C5_Witness ==
  /\ burst = 2
  /\ searchQuery = <<"a", "b">>
  /\ debouncedSearchQuery = <<"a", "b">>
  /\ epoch = 2
  /\ Request(1, <<"a", "b">>, "search", 2) \in inflight

\* the committed query changes only to the value the raw input holds
CommitsRawValue ==
  [][debouncedSearchQuery' # debouncedSearchQuery =>
       debouncedSearchQuery' = searchQuery]_vars

\* the raw input has been v for the quiet period (and a commit of v is within MaxCommits)
QuietInput(v) ==
  /\ searchQuery = v
  /\ \E t \in timers : t.value = v /\ t.remaining = 0
  /\ debouncedSearchQuery = v \/ epoch <= MaxCommits

\* the displayed list starts with the first page of the results for v
ListReflects(v) ==
  LET first == Answer(1, v, TRUE).stations
  IN  Len(stations) >= Len(first) /\ SubSeq(stations, 1, Len(first)) = first

\* C33: in the debounced players the committed query is always a value the raw input
\* held, and if the raw input stays unchanged for the quiet period the committed query
\* eventually equals it and the displayed list eventually reflects that query (timers
\* fire and requests complete)
C33_QuietInputIsCommittedAndShown ==
  /\ CommitsRawValue
  /\ \A v \in Inputs :
       QuietInput(v) ~> (searchQuery # v \/ (debouncedSearchQuery = v /\ ListReflects(v)))

\* C8: loadMore() issues its request only when hasMore is true, no error is set and no
\* other station fetch is in flight.
C8_LoadMoreOnlyWhenIdle ==
  [][currentPage' = currentPage + 1 =>
       /\ hasMore
       /\ error = NoError
       /\ inflight = {}]_vars

C11_FilterChangeRecoversFromError ==
  error = FetchError => \E v \in Inputs : ENABLED P1_setSearchQuery(v)

\* C13: the error state is set only in a step in which a request settles on its own; a
\* step in which the search effect aborts a request leaves the error cleared.
C13_AbortNeverSetsError ==
  [][/\ (error' # error /\ error' # NoError) => \E r \in inflight : Settles(r)
     /\ (epoch' # epoch /\ Aborted # {}) => error' = NoError]_vars

\* C13 witness: the previous search request was aborted by a commit (its finally block
\* cleared the loading flags while the new page-1 request is in flight) and no error is set.
C13_Witness ==
  /\ epoch = 2
  /\ Request(1, debouncedSearchQuery, "search", 2) \in inflight
  /\ ~loading
  /\ ~loadingMore
  /\ hasMore
  /\ stations = <<>>
  /\ error = NoError

\* ---------------------------------------------------------------- filter claims
\* C14: in RadioPlayer.tsx, once every request has completed (without error, and before
\* any loadMore), the displayed list is the result of the latest committed filter set,
\* whatever the arrival order of the responses.
C14_LatestFilterSetWins ==
  (variant = "tsx" /\ inflight = {} /\ error = NoError /\ currentPage = 1 /\ epoch > 1) =>
    stations = TsxAnswer(1, AppliedFilters)

\* C23: when a tag or a country filter is committed in RadioPlayer.tsx, the filter values
\* and the page offset the client sends are the ones the GET handler applies to the
\* upstream query
C23_HandlerAppliesClientFilters ==
  variant = "tsx" =>
    \A r \in inflight :
      LET up == GETUpstreamParams(TsxParams(r.page, r.search))
      IN  /\ parseInt(up.offset) = (r.page - 1) * STATIONS_PER_PAGE
          /\ ParamOf(up, "tagList") = r.search.tag
          /\ ParamOf(up, "country") = r.search.country

\* ---------------------------------------------------------- list claims
\* the station fetches in flight for the currently committed filter
CurrentFetches ==
  {r \in inflight : r.search = IF variant = "p1" THEN debouncedSearchQuery ELSE AppliedFilters}

\* the flag that disables or hides Load More and holds back the empty-result message:
\* loadingMore in part_001, loading in RadioPlayer.tsx
BusyFlag == IF variant = "p1" THEN loadingMore ELSE loading

\* the Load More request r of the committed filter fails in this step: its fetchStations
\* call reaches the catch and sets the error
LoadMoreFails(r) ==
  /\ r \in inflight
  /\ r \notin inflight'
  /\ r.kind = "more"
  /\ r.epoch = epoch
  /\ epoch' = epoch
  /\ error = NoError
  /\ error' # NoError

\* C32: a loadMore() whose fetch fails leaves the pagination state as it was before the
\* call: the page counter is back at the last page loaded and the accumulated list is
\* unchanged, so the next loadMore() requests the same page again
C32_FailedLoadMoreKeepsPagination ==
  [][\A r \in inflight :
       LoadMoreFails(r) => (currentPage' = r.page - 1 /\ stations' = stations)]_vars

\* C31: in part_001 and RadioPlayer.tsx, whenever a station fetch for the currently
\* committed filter is in flight the loading flag is true; it is false only when no such
\* fetch is in flight (an aborted or superseded request completing does not clear it)
C31_LoadingFlagTracksRequests ==
  (variant \in {"p1", "tsx"} /\ CurrentFetches # {}) => BusyFlag

\* a page-1 request for the filter f is issued in this step
IssuesFirstPage(f) == \E r \in inflight' \ inflight : r.page = 1 /\ r.search = f

\* C28: whenever a committed filter value changes (the debounced query in part_001;
\* search, tag or country in RadioPlayer.tsx) the component sets the page counter to 1
\* and the accumulated list to empty, and issues the page-1 request for the new value
C28_CommitResetsPageAndList ==
  [][/\ (variant = "p1" /\ debouncedSearchQuery' # debouncedSearchQuery) =>
          /\ currentPage' = 1
          /\ stations' = <<>>
          /\ IssuesFirstPage(debouncedSearchQuery')
     /\ (variant = "tsx" /\ AppliedFilters' # AppliedFilters) =>
          /\ currentPage' = 1
          /\ stations' = <<>>
          /\ IssuesFirstPage(AppliedFilters')]_vars

\* a filter value was committed while the list held two pages: the page-2 request of the
\* previous value is still in flight, the page counter is 1 and the list is empty
C28_Witness ==
  /\ epoch = 2
  /\ currentPage = 1
  /\ stations = <<>>
  /\ \E r \in inflight : r.kind = "more" /\ r.epoch = 1 /\ r.page = 2
  /\ \E r \in inflight : r.epoch = 2 /\ r.page = 1

\* the stations of a body and what it says about further pages
BodyStations(data) == IF data.shape = "object" THEN data.stations ELSE data.items

BodyHasMore(data) ==
  IF data.shape = "object" THEN data.hasMore ELSE Len(data.items) = STATIONS_PER_PAGE

\* C24: whether the endpoint answers with the object {stations, hasMore} or with a bare
\* array, after a successful fetch the client's list is a sequence holding exactly the
\* returned stations (replaced for page 1, appended otherwise) and hasMore reflects the
\* response
C24_BothResponseShapesHandled ==
  [][received' # received =>
       /\ listOk'
       /\ stations' = IF received'.page = 1 THEN BodyStations(received'.body)
                      ELSE stations \o BodyStations(received'.body)
       /\ hasMore' = BodyHasMore(received'.body)]_vars

\* case folding and removal of diacritics, code point by code point
FoldChar(c) ==
  IF c \in {"e/", "E/"} THEN <<"e">>
  ELSE IF c = "/" THEN <<>>
  ELSE IF \E i \in 1..26 : UpperCase[i] = c
    THEN <<LowerCase[CHOOSE i \in 1..26 : UpperCase[i] = c]>>
  ELSE <<c>>

RECURSIVE Fold(_)
Fold(text) == IF text = <<>> THEN <<>> ELSE FoldChar(Head(text)) \o Fold(Tail(text))

\* the whitespace-separated terms of a text: its maximal runs without a space
TermsOf(text) ==
  {SubSeq(text, i, j) : <<i, j>> \in
     {p \in (1..Len(text)) \X (1..Len(text)) :
        /\ p[1] <= p[2]
        /\ \A k \in p[1]..p[2] : text[k] # " "
        /\ (p[1] = 1 \/ text[p[1] - 1] = " ")
        /\ (p[2] = Len(text) \/ text[p[2] + 1] = " ")}}

\* term occurs in text
Occurs(term, text) ==
  \E i \in 1..(Len(text) - Len(term) + 1) : SubSeq(text, i, i + Len(term) - 1) = term

\* every term of the folded query occurs in the folded name or in the folded tags
MatchesQuery(station, query) ==
  \A term \in TermsOf(Fold(query)) :
    Occurs(term, Fold(station.name)) \/ Occurs(term, Fold(station.tags))

\* for a committed non-empty query, a loaded station is shown if and only if it matches
FilterKeepsMatchingStations ==
  (variant = "p0" /\ debouncedSearchQuery # <<>>) =>
    \A k \in 1..Len(AllStations) :
      (\E i \in 1..Len(stations) : stations[i] = AllStations[k])
        <=> MatchesQuery(AllStations[k], debouncedSearchQuery)

\* "cafe/" keeps "Cafe Radio", "cafe" keeps "Cafe/ Radio", and "rock london" drops
\* "Rock FM", which has "rock" and no "london"
FilterExamples ==
  variant = "p0" =>
    /\ debouncedSearchQuery = <<"c", "a", "f", "e/">>
         => \E i \in 1..Len(stations) : stations[i].id = 1
    /\ debouncedSearchQuery = <<"c", "a", "f", "e">>
         => \E i \in 1..Len(stations) : stations[i].id = 2
    /\ debouncedSearchQuery = <<"r", "o", "c", "k", " ", "l", "o", "n", "d", "o", "n">>
         => \A i \in 1..Len(stations) : stations[i].id # 3

\* C22: for a committed non-empty query, a loaded station is kept if and only if every
\* whitespace-separated term of the normalized query is a substring of its normalized
\* name or of its normalized tags, normalization folding case and removing diacritics;
\* the three examples of the claim hold
C22_FilterMatchesFoldedTerms == FilterKeepsMatchingStations /\ FilterExamples

\* the query "CAFE/  london" (two terms, accent and upper case, two spaces) is committed:
\* the one station shown has the first term in its tags and the second in its name
C22_Witness ==
  /\ variant = "p0"
  /\ debouncedSearchQuery = <<"C", "A", "F", "E/", " ", " ", "l", "o", "n", "d", "o", "n">>
  /\ Len(stations) = 1
  /\ stations[1].id = 4

\* -------------------------------------------------------------- server claims
\* C4: after any interleaving of toggleFavorite calls, the favorites table holds at most
\* one row per station id.
C4_OneFavoriteRowPerStation ==
  \A stationId \in StationRows : Cardinality(SelectFavorite(favorites, stationId)) <= 1

\* C17: a getRadioBrowserServers call whose lookup failed does not throw and returns the
\* three fallback hosts, and the caller then sends its request to one of them.
C17_LookupFailureFallsBack ==
  \A c \in Resolvers :
    gs[c].failed =>
      /\ gs[c].pc # "threw"
      /\ gs[c].ret = Fallback
      /\ Len(gs[c].ret) = 3
      /\ gs[c].pc = "idle" => \E k \in 1..3 : gs[c].host = Fallback[k]

\* C17 witness: after a failed lookup the caller has sent its request to the second
\* fallback host.
C17_Witness ==
  \E c \in Resolvers :
    gs[c].failed /\ gs[c].pc = "idle" /\ gs[c].host = "nl1.api.radio-browser.info"

\* C18: once a lookup has succeeded, a getRadioBrowserServers call made less than
\* ONE_HOUR after the latest success returns the cached hosts of that success without a
\* lookup, and a call made ONE_HOUR or more after it performs a lookup.
C18_CacheFreshForOneHour ==
  [][\A c \in Resolvers :
       (gs[c].pc = "idle" /\ gs'[c].pc # "idle" /\ lastSuccess # NoSuccess) =>
         IF now - lastSuccess.at < ONE_HOUR
           THEN /\ gs'[c].pc = "have"
                /\ gs'[c].ret = lastSuccess.hosts
                /\ ~gs'[c].lookedUp
                /\ serverCalls' = serverCalls + 1
           ELSE /\ gs'[c].pc = "lookup"
                /\ gs'[c].lookedUp]_vars

\* C18 witness: a call made one clock step after a successful lookup has returned the
\* cached hosts without a lookup.
C18_Witness ==
  \E c \in Resolvers :
    /\ gs[c].pc = "have"
    /\ ~gs[c].lookedUp
    /\ gs[c].ret = lastSuccess.hosts
    /\ now - lastSuccess.at = ClockStepMs

\* C19: when no lookup is in flight and at least one lookup has succeeded, the cache
\* holds the hosts and the time of the latest successful lookup, whichever lookups failed
\* since, and it counts as fresh exactly inside that success's window (so that calls
\* inside the window return these hosts).
C19_OverlappingLookupsConverge ==
  ((\A c \in Resolvers : gs[c].pc # "lookup") /\ lastSuccess # NoSuccess) =>
    /\ cachedServers = lastSuccess.hosts
    /\ cachedServers \in HostLists
    /\ lastServerFetch = lastSuccess.at
    /\ CacheFresh(cachedServers, lastServerFetch, now) <=> (now - lastSuccess.at < ONE_HOUR)

\* C19 witness: two calls started their lookups while the cache was empty; one lookup
\* failed, the other succeeded, and the cache holds the successful one's hosts.
C19_Witness ==
  \E c1, c2 \in Resolvers :
    /\ now = ONE_HOUR
    /\ serverCalls = 2
    /\ gs[c1].pc = "have" /\ gs[c1].lookedUp /\ gs[c1].failed
    /\ gs[c2].pc = "have" /\ gs[c2].lookedUp /\ ~gs[c2].failed
    /\ cachedServers = gs[c2].ret

\* C20: in every store state reachable through toggleFavorite and for every station id,
\* two toggleFavorite(id) calls in sequence restore the set of favorited station ids.
C20_ToggleTwiceRestores ==
  \A stationId \in StationRows :
    LET tbl == [rows |-> favorites, seq |-> favSeq]
        once == toggleFavorite(tbl, stationId)
        twice == toggleFavorite(once, stationId)
    IN  /\ FavoritedIds(twice.rows) = FavoritedIds(favorites)
        /\ (stationId \in FavoritedIds(once.rows)) # (stationId \in FavoritedIds(favorites))

\* C20 witness: a station has two favorite rows (two toggles raced) and nobody is inside
\* toggleFavorite: the state from which a pair of toggles has to delete both rows.
C20_Witness ==
  /\ \A c \in Callers : tf[c].pc = "idle"
  /\ \E stationId \in StationRows : Cardinality(SelectFavorite(favorites, stationId)) = 2
  /\ toggles = 2

\* the content of a stations row: the columns addStation writes
StationContent(r) == <<r.name, r.url, r.favicon, r.tags>>

\* C21: addStation is idempotent; calling it twice with the same station leaves the rows
\* that one call leaves, so no two rows of the stations table hold the same name, url,
\* favicon and tags
C21_AddStationIdempotent ==
  \A r, q \in stationTable : StationContent(r) = StationContent(q) => r = q

\* a record with a url and with a name that has a character other than a space
HasNameAndUrl(r) == r.url # <<>> /\ \E k \in DOMAIN r.name : r.name[k] # " "

\* C15: every station the listing handler returns has a non-empty name and a non-empty
\* url, and the stations returned are exactly the upstream records that have both, in order.
C15_ReturnedStationsHaveNameAndUrl ==
  response # NoResponse =>
    /\ \A k \in DOMAIN response.stations :
         response.stations[k].name # <<>> /\ response.stations[k].url # <<>>
    /\ upstream.ok =>
         LET kept == SelectSeq(upstream.body, HasNameAndUrl)
         IN  /\ Len(response.stations) = Len(kept)
             /\ \A k \in DOMAIN kept : response.stations[k].id = kept[k].stationuuid

\* C15 witness: of an upstream page with a blank-named record, a record without url and a
\* usable record, the handler has returned the one usable record.
C15_Witness ==
  /\ response # NoResponse
  /\ upstream.ok
  /\ Len(upstream.body) = 3
  /\ \E i, j \in DOMAIN upstream.body :
       upstream.body[i].url = <<>> /\ upstream.body[j].name = <<" ">>
  /\ Len(response.stations) = 1

\* C16: when the handler's upstream request fails, the handler answers with an empty
\* station list and hasMore false.
C16_UpstreamFailureGivesEmptyPage ==
  (response # NoResponse /\ ~upstream.ok) =>
    response.stations = <<>> /\ ~response.hasMore

\* C10: the hasMore flag the handler returns is true exactly when the directory answered
\* the request with a full page of `limit` records.
C10_HasMoreIffFullUpstreamPage ==
  response # NoResponse =>
    (response.hasMore <=> (upstream.ok /\ Len(upstream.body) = response.limit))

====
